---- MODULE Spec2Model ----
(***************************************************************************)
(* Model of scripts/enable_hourly_updates.py: one run of main(), which     *)
(* locates the stored GitHub token, migrates a legacy token file, resolves *)
(* the repository from config.ini and creates the two repository secrets   *)
(* (public-key GET, sealed-box encryption, PUT), falling back to manual    *)
(* instructions when a recoverable step fails.                             *)
(*                                                                         *)
(* Python strings that the code inspects character by character            *)
(* (config.ini) are sequences of one-character strings.                    *)
(***************************************************************************)
EXTENDS Integers, Sequences, FiniteSets, TLC

VARIABLES
    pc,               \* position of the run inside main()
    newFile,          \* ~/.gamecache/token.json
    legacyFile,       \* ~/.mybgg/token.json
    newAtStart,       \* newFile as it was when main() started
    config,           \* config.ini next to the scripts directory
    configLines,      \* the lines config.ini was written with
    cryptoAvailable,  \* whether "import nacl.public" succeeds
    token_file,       \* main: "new" or "legacy"
    token_data,       \* main: json.load(f)
    token,            \* main: token_data['access_token']
    repo,             \* main: get_repo_from_config()
    secret,           \* index of the create_github_secret call in progress
    public_key_data,  \* create_github_secret: the fetched key material
    encrypted_value,  \* create_github_secret: encrypt_secret(...)
    net,              \* HTTP requests issued so far, in order
    remote,           \* secrets the repository holds as a result of the run
    out,              \* lines printed so far, in order
    fsFault,          \* which step of the migration the file system refused
    exit              \* process exit status, NoExit while running

vars == <<pc, newFile, legacyFile, newAtStart, config, configLines,
          cryptoAvailable, token_file, token_data, token, repo, secret,
          public_key_data, encrypted_value, net, remote, out, fsFault, exit>>

----------------------------------------------------------------------------
(* Bounds *)

MaxLines == 2        \* lines of config.ini in the resolution specification

----------------------------------------------------------------------------
(* Python str helpers used by get_repo_from_config *)

Whitespace == {" ", "\t", "\n", "\r"}

Quotes == {"\"", "'"}

RECURSIVE lstrip(_, _)
lstrip(s, chars) ==
    IF s = <<>> THEN s
    ELSE IF Head(s) \in chars THEN lstrip(Tail(s), chars) ELSE s

RECURSIVE rstrip(_, _)
rstrip(s, chars) ==
    IF s = <<>> THEN s
    ELSE IF s[Len(s)] \in chars THEN rstrip(SubSeq(s, 1, Len(s) - 1), chars)
    ELSE s

\* str.strip(chars)
strip(s, chars) == rstrip(lstrip(s, chars), chars)

\* str.startswith(prefix)
startswith(s, prefix) ==
    /\ Len(s) >= Len(prefix)
    /\ SubSeq(s, 1, Len(prefix)) = prefix

\* index of the first occurrence of c in s, 0 when there is none
RECURSIVE find(_, _, _)
find(s, c, i) ==
    IF i > Len(s) THEN 0
    ELSE IF s[i] = c THEN i ELSE find(s, c, i + 1)

\* str.split(sep)
RECURSIVE split(_, _)
split(s, sep) ==
    LET i == find(s, sep, 1) IN
    IF i = 0 THEN <<s>>
    ELSE <<SubSeq(s, 1, i - 1)>> \o split(SubSeq(s, i + 1, Len(s)), sep)

\* str.split(sep, 1)
split_once(s, sep) ==
    LET i == find(s, sep, 1) IN
    IF i = 0 THEN <<s>>
    ELSE <<SubSeq(s, 1, i - 1), SubSeq(s, i + 1, Len(s))>>

\* "\n".join(lines): how a config.ini with these lines reads back
RECURSIVE join(_)
join(lines) ==
    IF lines = <<>> THEN <<>>
    ELSE IF Len(lines) = 1 THEN lines[1]
    ELSE lines[1] \o <<"\n">> \o join(Tail(lines))

----------------------------------------------------------------------------
(* config.ini *)

KEY ==
    <<"g", "i", "t", "h", "u", "b", "_", "r", "e", "p", "o">>

PLACEHOLDER ==
    <<"Y", "O", "U", "R", "_", "G", "I", "T", "H", "U", "B", "_", "U", "S", "E", "R", "N", "A", "M", "E", "/", "g", "a", "m", "e", "c", "a", "c", "h", "e">>

\* The return value of get_repo_from_config: None, or a non-empty string.
None == [found |-> FALSE, value |-> <<>>]

Some(v) == [found |-> TRUE, value |-> v]

\* repo.strip('"\'') with the quotes left in place
unquote_kept(repo_text) == repo_text

\* repo = repo.strip('"\'')
unquote(repo_text) == strip(repo_text, Quotes)

\* The body of the "for line in content.split('\n')" loop for one line:
\* the repository this line yields, None when the loop goes on.
repo_of_line(raw) ==
    LET line == strip(raw, Whitespace) IN
    IF ~startswith(line, KEY) THEN None
    ELSE LET parts == split_once(line, "=") IN
         IF Len(parts) # 2 THEN None
         ELSE LET r == unquote(strip(parts[2], Whitespace)) IN
              IF r # <<>> /\ r # PLACEHOLDER THEN Some(r) ELSE None

RECURSIVE scan_lines(_)
scan_lines(lines) ==
    IF lines = <<>> THEN None
    ELSE IF repo_of_line(Head(lines)).found THEN repo_of_line(Head(lines))
    ELSE scan_lines(Tail(lines))

get_repo_from_config(cfg) ==
    IF ~cfg.exists THEN None
    ELSE IF ~cfg.readable THEN None
    ELSE scan_lines(split(cfg.content, "\n"))

AbsentConfig == [exists |-> FALSE, readable |-> FALSE, content |-> <<>>]

UnreadableConfig == [exists |-> TRUE, readable |-> FALSE, content |-> <<>>]

ConfigOf(lines) == [exists |-> TRUE, readable |-> TRUE, content |-> join(lines)]

----------------------------------------------------------------------------
(* Token files *)

Tokens == {"ghp_A", "ghp_B"}

Mode0600 == 384

\* modes open(..., 'w') may create the file with, depending on the umask
CreateModes == {384, 420}

\* Parsed JSON values a token file may hold.
ValidData ==
    { [kind |-> "object", has_token |-> TRUE, access_token |-> "ghp_A", token_type |-> "bearer"],
      [kind |-> "object", has_token |-> TRUE, access_token |-> "ghp_B", token_type |-> ""] }

NoFieldData ==
    [kind |-> "object", has_token |-> FALSE, access_token |-> "", token_type |-> "bearer"]

\* the JSON array ["access_token"]: the membership test passes, the subscript raises
ArrayData ==
    [kind |-> "array", has_token |-> TRUE, access_token |-> "", token_type |-> ""]

NoData ==
    [kind |-> "none", has_token |-> FALSE, access_token |-> "", token_type |-> ""]

AbsentFile == [exists |-> FALSE, parses |-> FALSE, data |-> NoData, indent |-> 0, mode |-> 0]

\* a file that exists but that open() or json.load() rejects
BrokenFile == [exists |-> TRUE, parses |-> FALSE, data |-> NoData, indent |-> 0, mode |-> 420]

StoredFile(d) == [exists |-> TRUE, parses |-> TRUE, data |-> d, indent |-> 0, mode |-> 420]

TokenFiles ==
    {AbsentFile, BrokenFile} \cup {StoredFile(d) : d \in ValidData \cup {NoFieldData, ArrayData}}

\* json.dump writing the access token alone
json_dump_token_only(data, m) ==
    [exists |-> TRUE, parses |-> TRUE,
     data |-> [data EXCEPT !.token_type = ""], indent |-> 2, mode |-> m]

\* with open(new_token_path, 'w') as nf: json.dump(token_data, nf, indent=2)
json_dump(data, m) ==
    [exists |-> TRUE, parses |-> TRUE, data |-> data, indent |-> 2, mode |-> m]

\* 'access_token' in token_data
contains_access_token(data) == data.has_token

\* token_data['access_token'] raises TypeError on a list
subscript_raises(data) == data.kind # "object"

----------------------------------------------------------------------------
(* Process exit *)

NoExit == -1

\* a missing token file leaving with status 0
exit_status_no_file_ok(reason) ==
    CASE reason = "no_token_file"   -> 0
      [] reason = "no_access_token" -> 1
      [] reason = "read_error"      -> 1
      [] reason = "missing_crypto"  -> 1
      [] reason = "returned"        -> 0

\* lacking access_token treated as a completed run
exit_status_lenient(reason) ==
    CASE reason = "no_token_file"   -> 1
      [] reason = "no_access_token" -> 0
      [] reason = "read_error"      -> 1
      [] reason = "missing_crypto"  -> 1
      [] reason = "returned"        -> 0

\* sys.exit(1) at each fatal site, 0 when main() returns
exit_status(reason) ==
    CASE reason = "no_token_file"   -> 1
      [] reason = "no_access_token" -> 1
      [] reason = "read_error"      -> 1
      [] reason = "missing_crypto"  -> 1
      [] reason = "returned"        -> 0

----------------------------------------------------------------------------
(* Console output *)

Line(m, a) == [msg |-> m, arg |-> a]

Printed(m) == \E i \in 1..Len(out) : out[i].msg = m

\* the manual instructions with the token masked
show_manual_instructions_masked(tok) ==
    <<Line("manual_token", "***"), Line("manual_steps", "")>>

show_manual_instructions(tok) ==
    <<Line("manual_token", tok), Line("manual_steps", "")>>

----------------------------------------------------------------------------
(* The start of main(): token discovery, read and migration *)

FileAt(which) == IF which = "new" THEN newFile ELSE legacyFile

\* sys.exit(1) or the return of main(): the run is over
Finish(lines, reason) ==
    /\ out' = out \o lines
    /\ exit' = exit_status(reason)
    /\ pc' = "done"

main_locate ==
    /\ pc = "start"
    /\ token_file' = IF newFile.exists THEN "new" ELSE "legacy"
    /\ IF ~(IF newFile.exists THEN newFile ELSE legacyFile).exists
       THEN Finish(<<Line("no_token_file", "")>>, "no_token_file")
       ELSE /\ pc' = "read"
            /\ UNCHANGED <<out, exit>>
    /\ UNCHANGED <<newFile, legacyFile, newAtStart, config, configLines,
                   cryptoAvailable, token_data, token, repo, secret,
                   public_key_data, encrypted_value, net, remote, fsFault>>

main_read_token ==
    /\ pc = "read"
    /\ LET f == FileAt(token_file) IN
       IF ~f.parses
       THEN /\ Finish(<<Line("error_reading", "")>>, "read_error")
            /\ UNCHANGED <<token_data, token>>
       ELSE /\ token_data' = f.data
            /\ IF ~contains_access_token(f.data)
               THEN /\ Finish(<<Line("no_access_token", "")>>, "no_access_token")
                    /\ UNCHANGED token
               ELSE IF subscript_raises(f.data)
               THEN /\ Finish(<<Line("error_reading", "")>>, "read_error")
                    /\ UNCHANGED token
               ELSE /\ token' = f.data.access_token
                    /\ out' = out \o <<Line("found_token", "")>>
                    /\ pc' = IF token_file # "new" THEN "migrate" ELSE "resolve"
                    /\ UNCHANGED exit
    /\ UNCHANGED <<newFile, legacyFile, newAtStart, config, configLines,
                   cryptoAvailable, token_file, repo, secret,
                   public_key_data, encrypted_value, net, remote, fsFault>>

MigrationFaults == {"none", "write", "chmod"}

main_migrate ==
    /\ pc = "migrate"
    /\ \E fault \in MigrationFaults, m \in CreateModes :
         /\ fsFault' = fault
         /\ IF fault = "write"
            THEN /\ out' = out \o <<Line("migrate_warning", "")>>
                 /\ UNCHANGED newFile
            ELSE /\ newFile' = json_dump(token_data, IF fault = "chmod" THEN m ELSE Mode0600)
                 /\ out' = out \o <<Line("migrated", "")>>
    /\ pc' = "resolve"
    /\ UNCHANGED <<legacyFile, newAtStart, config, configLines, cryptoAvailable,
                   token_file, token_data, token, repo, secret,
                   public_key_data, encrypted_value, net, remote, exit>>

main_resolve_repo ==
    /\ pc = "resolve"
    /\ repo' = get_repo_from_config(config)
    /\ IF repo'.found
       THEN /\ out' = out \o <<Line("found_repo", ""), Line("creating_secrets", "")>>
            /\ pc' = "get_key"
            /\ secret' = 1
            /\ UNCHANGED exit
       ELSE /\ Finish(<<Line("no_repo", "")>> \o show_manual_instructions(token), "returned")
            /\ UNCHANGED secret
    /\ UNCHANGED <<newFile, legacyFile, newAtStart, config, configLines,
                   cryptoAvailable, token_file, token_data, token,
                   public_key_data, encrypted_value, net, remote, fsFault>>

----------------------------------------------------------------------------
(* The GitHub API as the run sees it *)

\* main: the two create_github_secret calls, in order, with the names swapped
SecretNamesSwapped == <<"MYBGG_GITHUB_TOKEN", "GAMECACHE_GITHUB_TOKEN">>

\* main: the two create_github_secret calls, in order
SecretNames == <<"GAMECACHE_GITHUB_TOKEN", "MYBGG_GITHUB_TOKEN">>

NoCipher == [pk |-> "", pt |-> "", eph |-> 0]

NoKey == [kind |-> "none", has_key |-> FALSE, has_key_id |-> FALSE, key |-> "", key_id |-> ""]

KeyBody(k, id) ==
    [kind |-> "body", has_key |-> TRUE, has_key_id |-> TRUE, key |-> k, key_id |-> id]

\* the base64 strings that decode to a 32-byte Curve25519 public key
DecodableKeys == {"pkA", "pkB"}

\* What _make_http_request(url, headers) may give back for the public-key
\* GET: nothing (the request failed), an exception, or the parsed body, which
\* may lack a field or hold a key PyNaCl rejects.  One call, one request.
HttpGetResponses ==
    { NoKey,
      [NoKey EXCEPT !.kind = "raise"],
      [KeyBody("pkA", "") EXCEPT !.has_key_id = FALSE],
      [KeyBody("", "idA") EXCEPT !.has_key = FALSE],
      KeyBody("pkA", "idA"),
      KeyBody("pkB", "idB"),
      KeyBody("pkBad", "idC") }

\* outcomes of urllib.request.urlopen for the PUT
PutResults == {"accepted", "http_error", "transport_error"}

\* fresh ephemeral key material drawn by SealedBox.encrypt
Ephemerals == {1, 2}

GetRequest(name, resp) ==
    [method |-> "GET", name |-> name, status |-> resp.kind,
     key |-> resp.key, key_id |-> resp.key_id, enc |-> NoCipher]

PutRequest(name, body, result) ==
    [method |-> "PUT", name |-> name, status |-> result,
     key |-> "", key_id |-> body.key_id, enc |-> body.encrypted_value]

\* get_repo_public_key: "if not response: raise Exception(...)"
get_repo_public_key(response) ==
    [raised |-> response.kind \in {"raise", "none"}, data |-> response]

\* encrypt_secret whose ImportError handler raises instead of exiting
encrypt_secret_raising(public_key, secret_value) ==
    IF ~cryptoAvailable THEN {[kind |-> "raise", value |-> NoCipher]}
    ELSE IF public_key \notin DecodableKeys THEN {[kind |-> "raise", value |-> NoCipher]}
    ELSE {[kind |-> "ok", value |-> [pk |-> public_key, pt |-> secret_value, eph |-> e]]
            : e \in Ephemerals}

\* encrypt_secret: the outcomes of one call.  The imports come first, so a
\* missing PyNaCl exits before the key is decoded; a key PyNaCl rejects
\* raises; otherwise the sealed box of the plaintext under the key.
encrypt_secret(public_key, secret_value) ==
    IF ~cryptoAvailable THEN {[kind |-> "exit", value |-> NoCipher]}
    ELSE IF public_key \notin DecodableKeys THEN {[kind |-> "raise", value |-> NoCipher]}
    ELSE {[kind |-> "ok", value |-> [pk |-> public_key, pt |-> secret_value, eph |-> e]]
            : e \in Ephemerals}

\* the PUT body with the key itself in place of its identifier
put_body_wrong_id(enc, pkd) == [encrypted_value |-> enc, key_id |-> pkd.key]

\* data = {'encrypted_value': encrypted_value, 'key_id': public_key_data['key_id']}
put_body(enc, pkd) == [encrypted_value |-> enc, key_id |-> pkd.key_id]

\* an accepted PUT that leaves the repository as it was
store_secret_dropped(held, name, body) == held

\* the repository after an accepted PUT: the secret is created or replaced
store_secret(held, name, body) ==
    {s \in held : s.name # name}
        \cup {[name |-> name, value |-> body.encrypted_value, key_id |-> body.key_id]}

----------------------------------------------------------------------------
(* create_github_secret, called twice by main() *)

\* a failure of the first call going on to the second call
handle_create_failure_continue(lines) ==
    IF secret = 1
    THEN /\ out' = out \o lines \o <<Line("failed_create", "")>>
         /\ pc' = "get_key"
         /\ secret' = 2
         /\ UNCHANGED exit
    ELSE /\ Finish(lines \o <<Line("failed_create", ""), Line("falling_back", "")>>
                         \o show_manual_instructions(token), "returned")
         /\ UNCHANGED secret

\* main: "except Exception as e" around the two calls
handle_create_failure(lines) ==
    /\ Finish(lines \o <<Line("failed_create", ""), Line("falling_back", "")>>
                    \o show_manual_instructions(token), "returned")
    /\ UNCHANGED secret

create_github_secret_get_key ==
    /\ pc = "get_key"
    /\ \E response \in HttpGetResponses :
         /\ net' = Append(net, GetRequest(SecretNames[secret], response))
         /\ LET r == get_repo_public_key(response) IN
            IF r.raised
            THEN /\ handle_create_failure(<<Line("getting_key", "")>>)
                 /\ UNCHANGED public_key_data
            ELSE /\ public_key_data' = r.data
                 /\ IF r.data.kind = "none" \/ ~r.data.has_key_id
                    THEN handle_create_failure(<<Line("getting_key", "")>>)
                    ELSE /\ out' = out \o <<Line("getting_key", ""), Line("got_key", r.data.key_id)>>
                         /\ pc' = "encrypt"
                         /\ UNCHANGED <<exit, secret>>
    /\ UNCHANGED <<newFile, legacyFile, newAtStart, config, configLines,
                   cryptoAvailable, token_file, token_data, token, repo,
                   encrypted_value, remote, fsFault>>

create_github_secret_encrypt ==
    /\ pc = "encrypt"
    /\ IF ~public_key_data.has_key
       THEN /\ handle_create_failure(<<Line("encrypting", "")>>)
            /\ UNCHANGED encrypted_value
       ELSE \E r \in encrypt_secret(public_key_data.key, token) :
              CASE r.kind = "exit" ->
                     /\ Finish(<<Line("encrypting", ""), Line("install_hint", "")>>,
                               "missing_crypto")
                     /\ UNCHANGED <<encrypted_value, secret>>
                [] r.kind = "raise" ->
                     /\ handle_create_failure(<<Line("encrypting", "")>>)
                     /\ UNCHANGED encrypted_value
                [] r.kind = "ok" ->
                     /\ encrypted_value' = r.value
                     /\ out' = out \o <<Line("encrypting", ""), Line("encrypted", "")>>
                     /\ pc' = "put"
                     /\ UNCHANGED <<exit, secret>>
    /\ UNCHANGED <<newFile, legacyFile, newAtStart, config, configLines,
                   cryptoAvailable, token_file, token_data, token, repo,
                   public_key_data, net, remote, fsFault>>

create_github_secret_put ==
    /\ pc = "put"
    /\ \E result \in PutResults :
         LET name == SecretNames[secret]
             body == put_body(encrypted_value, public_key_data)
         IN
         /\ net' = Append(net, PutRequest(name, body, result))
         /\ CASE result = "accepted" ->
                   /\ remote' = store_secret(remote, name, body)
                   /\ IF secret = 1
                      THEN /\ out' = out \o <<Line("put_request", name), Line("secret_ok", name)>>
                           /\ pc' = "get_key"
                           /\ secret' = 2
                           /\ UNCHANGED exit
                      ELSE /\ Finish(<<Line("put_request", name), Line("secret_ok", name),
                                       Line("both_ok", ""), Line("enabled", "")>>, "returned")
                           /\ UNCHANGED secret
              [] result = "http_error" ->
                   /\ handle_create_failure(<<Line("put_request", name), Line("http_error", name)>>)
                   /\ UNCHANGED remote
              [] result = "transport_error" ->
                   /\ handle_create_failure(<<Line("put_request", name), Line("request_failed", name)>>)
                   /\ UNCHANGED remote
    /\ UNCHANGED <<newFile, legacyFile, newAtStart, config, configLines,
                   cryptoAvailable, token_file, token_data, token, repo,
                   public_key_data, encrypted_value, fsFault>>

----------------------------------------------------------------------------
(* Config files the runs are checked on *)

LineAlice ==
    <<"g", "i", "t", "h", "u", "b", "_", "r", "e", "p", "o", " ", "=", " ", "\"", "a", "l", "i", "c", "e", "/", "g", "a", "m", "e", "s", "\"">>

LinePlaceholder ==
    <<"g", "i", "t", "h", "u", "b", "_", "r", "e", "p", "o", " ", "=", " ", "Y", "O", "U", "R", "_", "G", "I", "T", "H", "U", "B", "_", "U", "S", "E", "R", "N", "A", "M", "E", "/", "g", "a", "m", "e", "c", "a", "c", "h", "e">>

LineNoEquals ==
    <<"g", "i", "t", "h", "u", "b", "_", "r", "e", "p", "o">>

LineEmptyValue ==
    <<"g", "i", "t", "h", "u", "b", "_", "r", "e", "p", "o", " ", "=", " ", "\"", "\"">>

LineComment ==
    <<"#", " ", "g", "i", "t", "h", "u", "b", "_", "r", "e", "p", "o", " ", "=", " ", "b", "o", "b", "/", "x">>

LineBob ==
    <<"\t", "g", "i", "t", "h", "u", "b", "_", "r", "e", "p", "o", "=", "'", "b", "o", "b", "/", "x", "=", "y", "'", " ">>

LineTitle ==
    <<"t", "i", "t", "l", "e", " ", "=", " ", "G", "a", "m", "e", "s">>

LineBlank ==
    <<>>

AliceGames ==
    <<"a", "l", "i", "c", "e", "/", "g", "a", "m", "e", "s">>

BobValue ==
    <<"b", "o", "b", "/", "x", "=", "y">>

ConfigLineSet ==
    {LineAlice, LinePlaceholder, LineNoEquals, LineEmptyValue, LineComment,
     LineBob, LineTitle, LineBlank}

LineSeqs == UNION {[1..n -> ConfigLineSet] : n \in 0..MaxLines}

\* config.ini of the full runs: resolving, placeholder, resolving on a later line
RunConfigLines == {<<LineAlice>>, <<LinePlaceholder>>, <<LineTitle, LineBob>>}

----------------------------------------------------------------------------
(* Specification of one run of main() *)

Init ==
    /\ pc = "start"
    /\ newFile \in TokenFiles
    /\ legacyFile \in TokenFiles
    /\ newAtStart = newFile
    /\ \/ /\ configLines \in RunConfigLines
          /\ config = ConfigOf(configLines)
       \/ /\ configLines = <<>>
          /\ config = AbsentConfig
    /\ cryptoAvailable \in BOOLEAN
    /\ token_file = ""
    /\ token_data = NoData
    /\ token = ""
    /\ repo = None
    /\ secret = 0
    /\ public_key_data = NoKey
    /\ encrypted_value = NoCipher
    /\ net = <<>>
    /\ remote = {}
    /\ out = <<>>
    /\ fsFault = "none"
    /\ exit = NoExit

Next ==
    \/ main_locate
    \/ main_read_token
    \/ main_migrate
    \/ main_resolve_repo
    \/ create_github_secret_get_key
    \/ create_github_secret_encrypt
    \/ create_github_secret_put

Spec == Init /\ [][Next]_vars

----------------------------------------------------------------------------
(* Specification of get_repo_from_config alone, over every config.ini of    *)
(* at most MaxLines lines drawn from ConfigLineSet                          *)

InitConfig ==
    /\ pc = "config"
    /\ newFile = AbsentFile
    /\ legacyFile = AbsentFile
    /\ newAtStart = AbsentFile
    /\ \/ /\ configLines \in LineSeqs
          /\ config = ConfigOf(configLines)
       \/ /\ configLines = <<>>
          /\ config \in {AbsentConfig, UnreadableConfig}
    /\ cryptoAvailable = TRUE
    /\ token_file = ""
    /\ token_data = NoData
    /\ token = ""
    /\ repo = None
    /\ secret = 0
    /\ public_key_data = NoKey
    /\ encrypted_value = NoCipher
    /\ net = <<>>
    /\ remote = {}
    /\ out = <<>>
    /\ fsFault = "none"
    /\ exit = NoExit

call_get_repo_from_config ==
    /\ pc = "config"
    /\ repo' = get_repo_from_config(config)
    /\ pc' = "config_done"
    /\ UNCHANGED <<newFile, legacyFile, newAtStart, config, configLines,
                   cryptoAvailable, token_file, token_data, token, secret,
                   public_key_data, encrypted_value, net, remote, out,
                   fsFault, exit>>

NextConfig == call_get_repo_from_config

SpecConfig == InitConfig /\ [][NextConfig]_vars

----------------------------------------------------------------------------
(* Vocabulary of the properties *)

GAMECACHE == "GAMECACHE_GITHUB_TOKEN"

MYBGG == "MYBGG_GITHUB_TOKEN"

Gets(name) == {i \in DOMAIN net : net[i].method = "GET" /\ net[i].name = name}

Puts(name) == {i \in DOMAIN net : net[i].method = "PUT" /\ net[i].name = name}

AcceptedPuts(name) == {i \in Puts(name) : net[i].status = "accepted"}

CountMsg(m) == Cardinality({i \in DOMAIN out : out[i].msg = m})

Done == pc = "done"

NoFileAtStart == ~newAtStart.exists /\ ~legacyFile.exists

LegacyOnlyAtStart == legacyFile.exists /\ ~newAtStart.exists

\* the token file main() reads
Chosen == IF newAtStart.exists THEN newAtStart ELSE legacyFile

ManualPrintedWithToken ==
    \E i \in DOMAIN out : out[i] = Line("manual_token", token)

----------------------------------------------------------------------------
(* C1 *)

\* C1: when neither token file exists at the start of main(), the run issues
\* no HTTP request at any point and its only step ends it with status 1.
C1_NoTokenFile ==
    NoFileAtStart =>
        /\ net = <<>>
        /\ pc # "start" => (Done /\ exit = 1)

C1_Witness ==
    /\ NoFileAtStart
    /\ Done
    /\ exit = 1
    /\ Printed("no_token_file")

----------------------------------------------------------------------------
(* C2 *)

\* C2 as stated: a run that uploads both secrets fetches the public key
\* once, and no public-key GET lies between the two PUTs.
C2_Original ==
    (Puts(GAMECACHE) # {} /\ Puts(MYBGG) # {}) =>
        /\ Cardinality({i \in DOMAIN net : net[i].method = "GET"}) = 1
        /\ \A i \in Puts(GAMECACHE), j \in Puts(MYBGG), k \in DOMAIN net :
             (i < k /\ k < j) => net[k].method # "GET"

\* C2 amended: every PUT is immediately preceded by the public-key GET of
\* its own create_github_secret call, carries the key_id that GET returned
\* and a value sealed under the key that GET returned; a run that uploads
\* both secrets therefore issues GET, PUT, GET, PUT, with exactly one GET
\* (the one for MYBGG_GITHUB_TOKEN) between the two PUTs.
C2_KeyPerCall ==
    /\ \A i \in DOMAIN net :
         net[i].method = "PUT" =>
            /\ i > 1
            /\ net[i - 1].method = "GET"
            /\ net[i - 1].name = net[i].name
            /\ net[i - 1].status = "body"
            /\ net[i].key_id = net[i - 1].key_id
            /\ net[i].enc.pk = net[i - 1].key
    /\ (Puts(GAMECACHE) # {} /\ Puts(MYBGG) # {}) =>
            /\ Len(net) = 4
            /\ Puts(GAMECACHE) = {2}
            /\ Gets(MYBGG) = {3}
            /\ Puts(MYBGG) = {4}

C2_Witness ==
    /\ Len(net) = 4
    /\ net[2].method = "PUT" /\ net[2].key_id = "idA"
    /\ net[4].method = "PUT" /\ net[4].key_id = "idB"

----------------------------------------------------------------------------
(* C3 *)

\* C3: a public-key GET that fails (no body, or the request raised) is the
\* last request of the run: no value is encrypted and no PUT is issued for
\* that secret, and the run ends with the manual instructions printed,
\* showing the literal token.
C3_KeyFetchFailure ==
    \A i \in DOMAIN net :
        (net[i].method = "GET" /\ net[i].status \in {"none", "raise"}) =>
            /\ i = Len(net)
            /\ Puts(net[i].name) = {}
            /\ CountMsg("encrypting")
                 = Cardinality({j \in 1..(i - 1) : net[j].method = "GET"})
            /\ Done
            /\ ManualPrintedWithToken
            /\ token \in Tokens

C3_Witness ==
    /\ Len(net) = 3
    /\ net[3].method = "GET" /\ net[3].name = MYBGG /\ net[3].status = "none"
    /\ ManualPrintedWithToken

----------------------------------------------------------------------------
(* C4 *)

----------------------------------------------------------------------------
(* C5 *)

CredentialNotFound == ~Chosen.exists

CredentialUnreadable == Chosen.exists /\ ~Chosen.parses

CredentialLacksToken ==
    Chosen.parses /\ (Chosen.data.kind # "object" \/ ~Chosen.data.has_token)

\* encrypt_secret was called without PyNaCl: the only request of the run is
\* a public-key GET answered with a key and a key_id, and the import fails
MissingCryptoHit ==
    /\ ~cryptoAvailable
    /\ Len(net) = 1
    /\ net[1].status = "body" /\ net[1].key # "" /\ net[1].key_id # ""

\* C5 as stated: a finished run has status 1 exactly when the credential
\* file is missing, unreadable or without access_token, and 0 otherwise.
C5_Original ==
    Done =>
        /\ exit \in {0, 1}
        /\ exit = 1 <=>
             (CredentialNotFound \/ CredentialUnreadable \/ CredentialLacksToken)

\* C5 amended: a finished run has status 1 exactly when the credential file
\* is missing, unreadable or without access_token, or when encrypt_secret
\* was called without PyNaCl; it has status 0 otherwise, in particular on
\* every run that printed the manual instructions.
C5_ExitStatus ==
    Done =>
        /\ exit \in {0, 1}
        /\ exit = 1 <=>
             (\/ CredentialNotFound
              \/ CredentialUnreadable
              \/ CredentialLacksToken
              \/ MissingCryptoHit)
        /\ Printed("manual_token") => exit = 0

C5_Witness ==
    /\ Done
    /\ exit = 0
    /\ Printed("manual_token")
    /\ Len(net) = 4
    /\ net[4].method = "PUT" /\ net[4].status = "transport_error"

----------------------------------------------------------------------------
(* C6 *)

BothAccepted == AcceptedPuts(GAMECACHE) # {} /\ AcceptedPuts(MYBGG) # {}

\* C6: once both PUTs have been accepted, the run is over with status 0:
\* the PUT for GAMECACHE_GITHUB_TOKEN came before the PUT for
\* MYBGG_GITHUB_TOKEN, each carried the token sealed under a fetched key,
\* success was reported for both names, and the manual instructions were not
\* printed.  The combined success message is printed only if both PUTs were
\* accepted.
C6_BothCreated ==
    /\ BothAccepted =>
          /\ Done /\ exit = 0
          /\ \A i \in Puts(GAMECACHE), j \in Puts(MYBGG) : i < j
          /\ \A i \in Puts(GAMECACHE) \cup Puts(MYBGG) :
                /\ net[i].enc.pt = token
                /\ net[i].enc.pk \in DecodableKeys
          /\ \E i \in DOMAIN out : out[i] = Line("secret_ok", GAMECACHE)
          /\ \E i \in DOMAIN out : out[i] = Line("secret_ok", MYBGG)
          /\ Printed("both_ok")
          /\ ~Printed("manual_token") /\ ~Printed("manual_steps")
          /\ repo.found
    /\ Printed("both_ok") => BothAccepted

C6_Witness ==
    /\ BothAccepted
    /\ Printed("both_ok")
    /\ exit = 0
    /\ repo = Some(AliceGames)

----------------------------------------------------------------------------
(* C7 *)

FailedRun == Done /\ (Printed("manual_token") \/ exit = 1)

----------------------------------------------------------------------------
(* C8 *)

\* encrypt_secret has been called: the run got past "Encrypting secret
\* value..." with a response that holds a key
EncryptCalled == Printed("encrypting") /\ public_key_data.has_key

\* C8: when encrypt_secret is called without PyNaCl, the run ends with
\* status 1 behind the install hint; the handler around the two calls does
\* not take over: no PUT is issued and no manual instructions are printed.
C8_MissingCrypto ==
    (~cryptoAvailable /\ EncryptCalled) =>
        /\ Done /\ exit = 1
        /\ Printed("install_hint")
        /\ \A i \in DOMAIN net : net[i].method # "PUT"
        /\ ~Printed("failed_create")
        /\ ~Printed("manual_token")
        /\ remote = {}

C8_Witness ==
    /\ ~cryptoAvailable
    /\ EncryptCalled
    /\ Printed("install_hint")
    /\ exit = 1

----------------------------------------------------------------------------
(* C9 *)

\* What each line of ConfigLineSet is to yield, worked out by hand from the
\* rule: strip the line; it must begin with github_repo and contain "=";
\* the text after the first "=", stripped of whitespace and then of quote
\* characters, must be non-empty and differ from the placeholder.
Expected(line) ==
    CASE line = LineAlice -> Some(AliceGames)
      [] line = LineBob   -> Some(BobValue)
      [] OTHER            -> None

\* lines of ConfigLineSet that begin with the key
KeyLines == {LineAlice, LinePlaceholder, LineNoEquals, LineEmptyValue, LineBob}

Yielding == {i \in DOMAIN configLines : Expected(configLines[i]).found}

WithKey == {i \in DOMAIN configLines : configLines[i] \in KeyLines}

Min(S) == CHOOSE i \in S : \A j \in S : i <= j

\* C9 as stated: the result is None exactly when the file is absent, no
\* line begins with github_repo, or the value is the placeholder.
C9_Original ==
    pc = "config_done" =>
        (repo = None <=>
            \/ ~config.exists \/ ~config.readable
            \/ WithKey = {}
            \/ configLines[Min(WithKey)] = LinePlaceholder)

\* C9 amended: the result is None when the file is absent or unreadable or
\* when no line yields a value; a line yields a value when it begins with
\* github_repo, contains "=", and the text after the first "=", stripped of
\* whitespace and quote characters, is neither empty nor the placeholder;
\* otherwise the result is that text of the first line that yields one.
C9_Resolution ==
    pc = "config_done" =>
        repo = IF ~config.exists \/ ~config.readable \/ Yielding = {}
               THEN None
               ELSE Expected(configLines[Min(Yielding)])

C9_Witness ==
    /\ pc = "config_done"
    /\ configLines = <<LinePlaceholder, LineAlice>>
    /\ repo = Some(AliceGames)

----------------------------------------------------------------------------
(* C10 *)

\* the first create_github_secret call has failed
FirstCreationFailed ==
    /\ Gets(GAMECACHE) # {}
    /\ AcceptedPuts(GAMECACHE) = {}
    /\ ~(secret = 1 /\ pc \in {"encrypt", "put"})

====
